---------------------------- MODULE Spec2Model ----------------------------
(***************************************************************************)
(* A model of src/iicode.py: the conversion of a JSON description of a     *)
(* multi-robot controller network into the ring, member, calibration and   *)
(* check-list documents, and the packaging of the output directory.        *)
(*                                                                         *)
(* Text is modelled as follows.  A robot name is a sequence of one-letter  *)
(* strings, so that the cleaning rule works on characters.  Every other    *)
(* text (roles, positions, addresses, file names) is a TLA+ string.  A     *)
(* pandas cell that holds no value is the marker NaN.  An XML document is  *)
(* the record of the values the template interpolates, in template order.  *)
(***************************************************************************)
EXTENDS Integers, Sequences, FiniteSets, TLC

VARIABLES
    images,       \* folder 'images': whether it exists, and its first .json file
    uploads,      \* how many times upload_images was called
    baseExists,   \* whether base/iic_chkbase.xvr exists
    df,           \* the caller's table (the value process_json returned)
    folder_path,  \* the module global folder_path
    fs,           \* the output side of the file system
    last,         \* the last call: its name, its outcome, the paths it wrote
    ringRan,      \* whether generate_rosipcfg_xml has run
    zipExit,      \* how the external zip command ended, once it was started
    pc,           \* the caller's position
    raw,          \* a raw robot name handed to clean_robot_name
    cleaned       \* the results of cleaning raw once, twice, ...

vars == <<images, uploads, baseExists, df, folder_path, fs, last, ringRan, zipExit, pc, raw, cleaned>>

---------------------------------------------------------------------------
(* Bounds of the model. *)

\* the longest raw name of the cleaning specification
MaxLen == 3
\* the most entries of a Measurements list
MaxMeas == 2
\* how many times in a row a name is cleaned
MaxApply == 2
\* the most calls of upload_images in a session
MaxUploads == 1

---------------------------------------------------------------------------
(* Text helpers. *)

\* the characters raw names are drawn from
Chars == {"A", "B", "+", "=", "-"}

\* every raw name of at most MaxLen characters
Names == UNION {[1..k -> Chars] : k \in 0..MaxLen}

\* the name of the documented example, "A+B=C-D-E"
ExampleName == <<"A", "+", "B", "=", "C", "-", "D", "-", "E">>

\* str.replace(ch, ''): every occurrence of ch removed
Replace(s, ch) == SelectSeq(s, LAMBDA c : c # ch)

\* str.split(sep)[0]: the text before the first sep, all of it when there is none
RECURSIVE SplitFirst(_, _)
SplitFirst(s, sep) ==
    IF s = <<>> THEN <<>>
    ELSE IF Head(s) = sep THEN <<>>
    ELSE <<Head(s)>> \o SplitFirst(Tail(s), sep)

\* a mutant of clean_robot_name: the '=' characters are kept
clean_robot_name_keeps_equals(robot_name) ==
    SplitFirst(Replace(robot_name, "+"), "-")

clean_robot_name(robot_name) ==
    SplitFirst(Replace(Replace(robot_name, "+"), "="), "-")

\* a pandas cell without a value
NaN == "<NaN>"

\* the f-string rendering of a cell: NaN prints as nan, text prints as it is
Str(value) == IF value = NaN THEN "nan" ELSE value

\* dict.get(key, default)
Get(obj, key, default) == IF key \in DOMAIN obj THEN obj[key] ELSE default


---------------------------------------------------------------------------
(* The inputs: the JSON documents a run may find in folder 'images'. *)

\* the "not applicable" placeholder of the position fields
PLACEHOLDER == "NA"

\* the six position columns
PosFields == {"X", "Y", "Z", "RX", "RY", "RZ"}

\* a measurement whose cleaned name collides with a master's, all positions given
EntryA ==
    [RobotName |-> <<"R", "-", "0", "2", "-", "A">>, RobotType |-> "T2",
     X |-> "1.0", Y |-> "2.0", Z |-> "3.0", RX |-> "0.1", RY |-> "0.2", RZ |-> "0.3"]

\* a measurement with '+' and '=' in its name and the placeholder in X, Z, RY
EntryB ==
    [RobotName |-> <<"S", "+", "=", "3">>, RobotType |-> "T2",
     X |-> "NA", Y |-> "2.0", Z |-> "NA", RX |-> "0.1", RY |-> "NA", RZ |-> "0.3"]

\* a measurement with a clean name, the placeholder in Y, RX, RZ, and an IP of its own
EntryC ==
    [RobotName |-> <<"S", "3">>, RobotType |-> "T3",
     X |-> "1.0", Y |-> "NA", Z |-> "3.0", RX |-> "NA", RY |-> "0.2", RZ |-> "NA",
     IP |-> "10.0.0.3"]

\* a malformed measurement: no RobotName
EntryNoName ==
    [RobotType |-> "T2",
     X |-> "1.0", Y |-> "2.0", Z |-> "3.0", RX |-> "0.1", RY |-> "0.2", RZ |-> "0.3"]

\* the measurements lists are cut from this round of entries
Entries == <<EntryA, EntryB, EntryC, EntryNoName>>

\* the Measurements lists of at most MaxMeas entries that follow each other in
\* the round from a first entry on: from EntryA, the empty list, [A], [A, B], ...
ListsFrom(first) ==
    {[i \in 1..k |-> Entries[((first + i - 2) % Len(Entries)) + 1]] : k \in 0..MaxMeas}

\* the JSON objects: a master with a top-level IP, whose lists start at EntryA,
\* EntryC or EntryNoName; a master without one, whose lists start at EntryB; and
\* an object without Measurements
JsonDocs ==
    {[RobotName |-> <<"R", "-", "0", "1">>, RobotType |-> "T1", IP |-> "10.0.0.1",
      Measurements |-> m] : m \in ListsFrom(1) \cup ListsFrom(3) \cup ListsFrom(4)}
    \cup {[RobotName |-> <<"M", "=", "1", "+">>, RobotType |-> "T1", Measurements |-> m] :
        m \in ListsFrom(2)}
    \cup {[RobotName |-> <<"R", "-", "0", "1">>, RobotType |-> "T1", IP |-> "10.0.0.1"]}

\* the .json files: one whose text is an object, one whose text is a list, and
\* one whose text is no JSON
JsonFiles ==
    {[kind |-> "object", value |-> json_data] : json_data \in JsonDocs}
    \cup {[kind |-> "list", value |-> <<>>], [kind |-> "invalid", value |-> <<>>]}

\* the states of folder 'images': missing, without a .json file, or with the file
\* that comes first among its .json files; the files listed after it are never read
NoFolder == [folder |-> FALSE, json_files |-> <<>>]

Folder(json_files) == [folder |-> TRUE, json_files |-> json_files]

ImagesFolders == {NoFolder, Folder(<<>>)} \cup {Folder(<<file>>) : file \in JsonFiles}

\* the input shape of the Robot Table Builder: the three top-level fields, and a
\* list of measurements that each carry RobotName
WellFormed(json_data) ==
    /\ {"RobotName", "RobotType", "IP", "Measurements"} \subseteq DOMAIN json_data
    /\ \A i \in 1..Len(json_data.Measurements) :
           "RobotName" \in DOMAIN json_data.Measurements[i]

---------------------------------------------------------------------------
(* upload_images: the files the user picks are saved into folder 'images',  *)
(* which is created when missing.  An uploaded .json file becomes the first *)
(* .json file of the folder (it is the only one, it replaces the first, or  *)
(* the directory lists it first) or it is listed after the first, and then  *)
(* the folder reads as before; an upload without a .json file leaves the    *)
(* .json files alone.                                                       *)
upload_images ==
    /\ uploads < MaxUploads
    /\ uploads' = uploads + 1
    /\ \E uploaded \in {<<>>} \cup {<<file>> : file \in JsonFiles}, listed_first \in BOOLEAN :
           images' = IF uploaded # <<>> /\ (listed_first \/ images.json_files = <<>>)
                         THEN Folder(uploaded)
                         ELSE Folder(images.json_files)
    /\ last' = [op |-> "upload_images", result |-> "ok", wrote |-> {}]
    /\ UNCHANGED <<baseExists, df, folder_path, fs, ringRan, zipExit, raw, cleaned>>

---------------------------------------------------------------------------
(* process_json: the Robot Table Builder. *)

\* a name the caller has not bound, and the table of no rows
Unbound == <<>>

\* len(df)
NRows(table) == Cardinality(DOMAIN table)

\* the columns of pd.DataFrame(measurements): every key of every entry
FrameColumns(measurements) ==
    UNION {DOMAIN measurements[i] : i \in 1..Len(measurements)}

\* master_row
MasterRow(json_data) ==
    [RobotName |-> clean_robot_name(Get(json_data, "RobotName", <<>>)),
     Role |-> "Master",
     RobotType |-> Get(json_data, "RobotType", ""),
     X |-> PLACEHOLDER, Y |-> PLACEHOLDER, Z |-> PLACEHOLDER,
     RX |-> PLACEHOLDER, RY |-> PLACEHOLDER, RZ |-> PLACEHOLDER,
     IP |-> Get(json_data, "IP", "NA")]

\* a row of df after the name is cleaned and the Role column is added, widened
\* to the columns cols (a column the entry lacks holds NaN)
SlaveRow(entry, cols) ==
    [c \in cols |->
        IF c = "RobotName" THEN clean_robot_name(entry.RobotName)
        ELSE IF c = "Role" THEN "Slave"
        ELSE IF c \in DOMAIN entry THEN entry[c]
        ELSE NaN]

\* pd.concat([df_master, df], ignore_index=True): the master row at index 0, the
\* measurement rows after it in list order, every row over the union of the columns
Concat(master_row, measurements) ==
    LET cols == DOMAIN master_row \cup FrameColumns(measurements) \cup {"Role"}
    IN  [index \in 0..Len(measurements) |->
            IF index = 0
                THEN [c \in cols |-> IF c \in DOMAIN master_row THEN master_row[c] ELSE NaN]
                ELSE SlaveRow(measurements[index], cols)]

\* what process_json does on folder 'images': the error it raises, or the table
\* it returns.  os.listdir raises on a missing folder, [0] on an empty list of
\* .json files, json.load on a text that is no JSON, and json_data.get on a list
ProcessJson(dir) ==
    IF ~dir.folder
        THEN [result |-> "FileNotFoundError", table |-> Unbound]
    ELSE IF dir.json_files = <<>>
        THEN [result |-> "IndexError", table |-> Unbound]
    ELSE IF dir.json_files[1].kind = "invalid"
        THEN [result |-> "JSONDecodeError", table |-> Unbound]
    ELSE IF dir.json_files[1].kind = "list"
        THEN [result |-> "AttributeError", table |-> Unbound]
    ELSE LET json_data == dir.json_files[1].value
             measurements == Get(json_data, "Measurements", <<>>)
         IN  IF "RobotName" \notin FrameColumns(measurements)
                 THEN [result |-> "KeyError", table |-> Unbound]
             ELSE IF \E i \in 1..Len(measurements) :
                         "RobotName" \notin DOMAIN measurements[i]
                 THEN [result |-> "AttributeError", table |-> Unbound]
             ELSE [result |-> "ok", table |-> Concat(MasterRow(json_data), measurements)]

\* df = process_json(): df is bound only when the call returns
process_json ==
    LET r == ProcessJson(images)
    IN  /\ last' = [op |-> "process_json", result |-> r.result, wrote |-> {}]
        /\ df' = IF r.result = "ok" THEN r.table ELSE df
        /\ UNCHANGED <<images, uploads, baseExists, folder_path, fs, ringRan, zipExit, raw, cleaned>>

---------------------------------------------------------------------------
(* The output side of the file system.  fs.dirs are the directories that    *)
(* exist, fs.files maps the path <<directory, name>> of every file that     *)
(* exists to its content, and fs.zips maps a directory d to the entries of  *)
(* the archive d.zip, when that archive exists.                             *)

\* a global that no statement has assigned yet
Undefined == "<undefined>"

\* the value generate_rosipcfg_xml gives folder_path
OutputDir == "OLP_NET1"

\* the time-slot of the ring document
Timeslot == 400

\* os.path.join(folder, name)
Join(folder, name) == <<folder, name>>

\* open(path, 'w').write(content): the file is created or overwritten
WriteFile(files, path, content) ==
    [p \in DOMAIN files \cup {path} |-> IF p = path THEN content ELSE files[p]]

\* nothing written yet
EmptyFs == [dirs |-> {}, files |-> [p \in {} |-> ""], zips |-> [d \in {} |-> {}]]

\* the rows of a table in index order, as df.iterrows() yields them
Iterrows(table) == [k \in 1..NRows(table) |-> [index |-> k - 1, row |-> table[k - 1]]]

---------------------------------------------------------------------------
(* generate_rosipcfg_xml: the Ring Config Emitter. *)

\* a mutant of RingMember: the address of the first row in every MEMBER
RingMember_first_ip(robot, robot_data) ==
    [name |-> robot.RobotName, ipadd |-> Str(robot_data[1].IP)]

\* one MEMBER element
RingMember(robot, robot_data) ==
    [name |-> robot.RobotName, ipadd |-> Str(robot.IP)]

\* the ring document built from a table
RingDocument(table) ==
    LET robot_data ==
            [k \in 1..NRows(table) |->
                [RobotName |-> table[k - 1].RobotName, IP |-> table[k - 1].IP]]
    IN  [count |-> Len(robot_data),
         timeslot |-> Timeslot,
         members |-> [k \in 1..Len(robot_data) |-> RingMember(robot_data[k], robot_data)]]

generate_rosipcfg_xml ==
    LET output_file == Join(OutputDir, "ROSIPCFG.xml")
    IN  /\ folder_path' = OutputDir
        /\ fs' = [fs EXCEPT !.dirs = @ \cup {OutputDir},
                            !.files = WriteFile(@, output_file, RingDocument(df))]
        /\ ringRan' = TRUE
        /\ last' = [op |-> "generate_rosipcfg_xml", result |-> "ok", wrote |-> {output_file}]
        /\ UNCHANGED <<images, uploads, baseExists, df, zipExit, raw, cleaned>>

---------------------------------------------------------------------------
(* generate_xvr_files: the Member/Calibration Emitter. *)

\* a mutant of MemberId: the row index itself
MemberId_row_index(index) == index

\* member_id
MemberId(index) == index + 1

\* a mutant of ZmgrName: every row names itself as manager
ZmgrName_own_name(row) == row.RobotName

\* zmgr_name
ZmgrName(row) ==
    IF row.Role = "Master" THEN row.RobotName ELSE <<"*", "*", "*", "*", "*", "*", "*", "*">>

\* calib_done
CalibDone(row) == IF row.Role = "Master" THEN "TRUE" ELSE "FALSE"

\* a mutant of format_value: the placeholder is passed through
format_value_pass_through(value) == value

format_value(value) == IF value = "NA" THEN "0.000000" ELSE value

\* a mutant of Rob1Name: the row being emitted
Rob1Name_current_row(table, row) == row.RobotName

\* the $ROB1_NAME reference: df.iloc[0]['RobotName']
Rob1Name(table, row) == table[0].RobotName

\* the members document built from a table
MembersDocument(table) ==
    [var_name |-> "$IC_AZ_MEMBR",
     arrays |->
        [k \in 1..NRows(table) |->
            LET index == Iterrows(table)[k].index
                row == Iterrows(table)[k].row
            IN  [id |-> MemberId(index),
                 ZMGR_NAME |-> ZmgrName(row),
                 MEMBER_NAME |-> row.RobotName,
                 GROUP |-> "1",
                 COMMENT |-> row.Role]]]

\* the calibration document built from a table
CalibDocument(table) ==
    [var_name |-> "$IC_AZ_CALIB",
     arrays |->
        [k \in 1..NRows(table) |->
            LET index == Iterrows(table)[k].index
                row == Iterrows(table)[k].row
            IN  [id |-> MemberId(index),
                 CALIB_DONE |-> CalibDone(row),
                 X |-> Str(format_value(row.X)),
                 Y |-> Str(format_value(row.Y)),
                 Z |-> Str(format_value(row.Z)),
                 W |-> Str(format_value(row.RX)),
                 P |-> Str(format_value(row.RY)),
                 R |-> Str(format_value(row.RZ)),
                 ROB1_NAME |-> Rob1Name(table, row),
                 ROB2_NAME |-> row.RobotName]]]

\* a mutant of generate_xvr_files: an unset folder_path is set to the output
\* directory, which is created, instead of raising
generate_xvr_files_sets_folder ==
    LET members == Join(OutputDir, "members.xvr")
        calib == Join(OutputDir, "calib.xvr")
    IN  /\ folder_path' = OutputDir
        /\ fs' = [fs EXCEPT !.dirs = @ \cup {OutputDir},
                            !.files = WriteFile(WriteFile(@, members, MembersDocument(df)),
                                                calib, CalibDocument(df))]
        /\ last' = [op |-> "generate_xvr_files", result |-> "ok", wrote |-> {members, calib}]
        /\ UNCHANGED <<images, uploads, baseExists, df, ringRan, zipExit, raw, cleaned>>

\* both documents are built before folder_path is read: an unset folder_path
\* raises NameError at the first os.path.join, before any file is opened
generate_xvr_files ==
    IF folder_path = Undefined
        THEN /\ last' = [op |-> "generate_xvr_files", result |-> "NameError", wrote |-> {}]
             /\ UNCHANGED <<images, uploads, baseExists, df, folder_path, fs, ringRan, zipExit,
                            raw, cleaned>>
        ELSE LET members == Join(folder_path, "members.xvr")
                 calib == Join(folder_path, "calib.xvr")
             IN  /\ fs' = [fs EXCEPT !.files =
                              WriteFile(WriteFile(@, members, MembersDocument(df)),
                                        calib, CalibDocument(df))]
                 /\ last' = [op |-> "generate_xvr_files", result |-> "ok",
                             wrote |-> {members, calib}]
                 /\ UNCHANGED <<images, uploads, baseExists, df, folder_path, ringRan, zipExit,
                                raw, cleaned>>

---------------------------------------------------------------------------
(* generate_iic_chk_xml and copy_and_zip_folder: the Check-List Emitter &   *)
(* Packager.                                                                *)

\* the check-list document built from a table
IicChkDocument(table) ==
    [var_name |-> "$IA_CHKCMB",
     arrays |->
        [k \in 1..NRows(table) |->
            LET index == Iterrows(table)[k].index
                row == Iterrows(table)[k].row
            IN  [id |-> MemberId(index), R_CNTLR |-> row.RobotName]]]

generate_iic_chk_xml ==
    IF folder_path = Undefined
        THEN /\ last' = [op |-> "generate_iic_chk_xml", result |-> "NameError", wrote |-> {}]
             /\ UNCHANGED <<images, uploads, baseExists, df, folder_path, fs, ringRan, zipExit,
                            raw, cleaned>>
        ELSE LET output_file == Join(folder_path, "iic_chk.xvr")
             IN  /\ fs' = [fs EXCEPT !.files = WriteFile(@, output_file, IicChkDocument(df))]
                 /\ last' = [op |-> "generate_iic_chk_xml", result |-> "ok",
                             wrote |-> {output_file}]
                 /\ UNCHANGED <<images, uploads, baseExists, df, folder_path, ringRan, zipExit,
                                raw, cleaned>>

\* zip -r <folder>.zip <folder>: the archive gains, or has replaced, an entry for
\* every file of the folder
Zip(zips, folder, files) ==
    LET entries == {p \in DOMAIN files : p[1] = folder}
        old == IF folder \in DOMAIN zips THEN zips[folder] ELSE {}
    IN  [d \in DOMAIN zips \cup {folder} |-> IF d = folder THEN old \cup entries ELSE zips[d]]

\* zip_file_path, f"{folder_path}.zip": a file of the working directory, beside
\* the folder and not inside it
ZipFilePath(folder) == Join(".", <<folder, ".zip">>)

\* the copy and the archiving, once the base file is found and folder_path is
\* set.  os.system does not raise: whether zip succeeds is the environment's
\* choice, and the call returns either way.  A zip that succeeds writes the
\* archive, which counts among the paths the call wrote
CopyAndZip ==
    LET destination_file == Join(folder_path, "iic_chkbase.xvr")
        copied == [fs EXCEPT !.dirs = @ \cup {folder_path},
                             !.files = WriteFile(@, destination_file, "base template")]
    IN  /\ \E zip_ok \in BOOLEAN :
               /\ zipExit' = IF zip_ok THEN "ok" ELSE "failed"
               /\ fs' = IF zip_ok
                            THEN [copied EXCEPT !.zips = Zip(@, folder_path, copied.files)]
                            ELSE copied
               /\ last' = [op |-> "copy_and_zip_folder", result |-> "ok",
                           wrote |-> IF zip_ok
                                         THEN {destination_file, ZipFilePath(folder_path)}
                                         ELSE {destination_file}]
        /\ UNCHANGED <<images, uploads, baseExists, df, folder_path, ringRan, raw, cleaned>>

\* a failed call of copy_and_zip_folder: nothing is touched
CopyAndZipFails(outcome) ==
    /\ last' = [op |-> "copy_and_zip_folder", result |-> outcome, wrote |-> {}]
    /\ UNCHANGED <<images, uploads, baseExists, df, folder_path, fs, ringRan, zipExit, raw, cleaned>>

\* a mutant of copy_and_zip_folder: the destination file is opened for writing
\* before the base file is looked for
copy_and_zip_folder_opens_destination_first ==
    IF folder_path = Undefined THEN CopyAndZipFails("NameError")
    ELSE IF ~baseExists
        THEN /\ fs' = [fs EXCEPT !.dirs = @ \cup {folder_path},
                                 !.files = WriteFile(@, Join(folder_path, "iic_chkbase.xvr"),
                                                     "")]
             /\ last' = [op |-> "copy_and_zip_folder", result |-> "NoBaseFile",
                         wrote |-> {}]
             /\ UNCHANGED <<images, uploads, baseExists, df, folder_path, ringRan, zipExit,
                            raw, cleaned>>
    ELSE CopyAndZip

\* a mutant of copy_and_zip_folder: the archive is made even without the base file
copy_and_zip_folder_zips_anyway ==
    IF folder_path = Undefined THEN CopyAndZipFails("NameError")
    ELSE IF ~baseExists
        THEN /\ fs' = [fs EXCEPT !.zips = Zip(@, folder_path, fs.files)]
             /\ zipExit' = "ok"
             /\ last' = [op |-> "copy_and_zip_folder", result |-> "NoBaseFile",
                         wrote |-> {ZipFilePath(folder_path)}]
             /\ UNCHANGED <<images, uploads, baseExists, df, folder_path, ringRan, raw, cleaned>>
    ELSE CopyAndZip

\* the base file is looked for first: without it the call prints a diagnostic
\* and returns; with it, an unset folder_path raises NameError before the copy
copy_and_zip_folder ==
    IF ~baseExists THEN CopyAndZipFails("NoBaseFile")
    ELSE IF folder_path = Undefined THEN CopyAndZipFails("NameError")
    ELSE CopyAndZip

---------------------------------------------------------------------------
(* The callers.  The module has no main program: its functions are called   *)
(* from notebook cells.  Spec lets the caller invoke the stages in any      *)
(* order, any number of times; PipelineSpec is one run in the documented    *)
(* order, which an exception ends; CleanSpec applies the cleaning rule to   *)
(* every bounded raw name.                                                  *)

\* the outcomes that are exceptions
Errors ==
    {"FileNotFoundError", "IndexError", "JSONDecodeError", "KeyError", "AttributeError",
     "NameError"}

Raised(call) == call.result \in Errors

\* the state before any call, at the caller's position start
Start(start) ==
    /\ images \in ImagesFolders
    /\ uploads = 0
    /\ baseExists \in BOOLEAN
    /\ df = Unbound
    /\ folder_path = Undefined
    /\ fs = EmptyFs
    /\ last = [op |-> "none", result |-> "ok", wrote |-> {}]
    /\ ringRan = FALSE
    /\ zipExit = "not run"
    /\ pc = start
    /\ raw = <<>>
    /\ cleaned = <<>>

Init == Start("notebook")

\* upload_images(), the user picking one file or none
CallUploadImages == pc = "notebook" /\ upload_images /\ UNCHANGED pc

\* df = process_json()
CallProcessJson == pc = "notebook" /\ process_json /\ UNCHANGED pc

\* generate_rosipcfg_xml(df), for a caller that holds a table
CallRosipcfg == pc = "notebook" /\ NRows(df) > 0 /\ generate_rosipcfg_xml /\ UNCHANGED pc

\* generate_xvr_files(df)
CallXvrFiles == pc = "notebook" /\ NRows(df) > 0 /\ generate_xvr_files /\ UNCHANGED pc

\* generate_iic_chk_xml(df)
CallIicChk == pc = "notebook" /\ NRows(df) > 0 /\ generate_iic_chk_xml /\ UNCHANGED pc

\* copy_and_zip_folder()
CallCopyAndZip == pc = "notebook" /\ copy_and_zip_folder /\ UNCHANGED pc

Next ==
    \/ CallUploadImages
    \/ CallProcessJson
    \/ CallRosipcfg
    \/ CallXvrFiles
    \/ CallIicChk
    \/ CallCopyAndZip

Spec == Init /\ [][Next]_vars

\* where a run goes after a stage: on to the next stage, or nowhere after an exception
After(call, next) == IF Raised(call) THEN "stopped" ELSE next

PipelineInit == Start("process_json")

StepProcessJson ==
    pc = "process_json" /\ process_json /\ pc' = After(last', "generate_rosipcfg_xml")

StepRosipcfg ==
    pc = "generate_rosipcfg_xml" /\ generate_rosipcfg_xml
        /\ pc' = After(last', "generate_xvr_files")

StepXvrFiles ==
    pc = "generate_xvr_files" /\ generate_xvr_files
        /\ pc' = After(last', "generate_iic_chk_xml")

StepIicChk ==
    pc = "generate_iic_chk_xml" /\ generate_iic_chk_xml
        /\ pc' = After(last', "copy_and_zip_folder")

StepCopyAndZip ==
    pc = "copy_and_zip_folder" /\ copy_and_zip_folder /\ pc' = After(last', "done")

PipelineNext ==
    \/ StepProcessJson
    \/ StepRosipcfg
    \/ StepXvrFiles
    \/ StepIicChk
    \/ StepCopyAndZip

PipelineSpec == PipelineInit /\ [][PipelineNext]_vars

CleanInit ==
    /\ raw \in Names \cup {ExampleName}
    /\ cleaned = <<>>
    /\ pc = "clean"
    /\ images = NoFolder
    /\ uploads = 0
    /\ baseExists = FALSE
    /\ df = Unbound
    /\ folder_path = Undefined
    /\ fs = EmptyFs
    /\ last = [op |-> "none", result |-> "ok", wrote |-> {}]
    /\ ringRan = FALSE
    /\ zipExit = "not run"

\* the name is cleaned, and then the result is cleaned again
CleanStep ==
    /\ pc = "clean"
    /\ Len(cleaned) < MaxApply
    /\ cleaned' = Append(cleaned, clean_robot_name(IF cleaned = <<>> THEN raw
                                                    ELSE cleaned[Len(cleaned)]))
    /\ UNCHANGED <<images, uploads, baseExists, df, folder_path, fs, last, ringRan, zipExit, pc, raw>>

CleanNext == CleanStep

CleanSpec == CleanInit /\ [][CleanNext]_vars

---------------------------------------------------------------------------
(* What the properties read. *)

\* whether the output directory holds the file
Written(name) == Join(OutputDir, name) \in DOMAIN fs.files

\* the content of a file of the output directory
Content(name) == fs.files[Join(OutputDir, name)]

\* whether OLP_NET1.zip exists
ArchiveCreated == OutputDir \in DOMAIN fs.zips

\* the four XML files of a run
XmlFiles == {"ROSIPCFG.xml", "members.xvr", "calib.xvr", "iic_chk.xvr"}

\* the stages that read folder_path
LaterStages == {"generate_xvr_files", "generate_iic_chk_xml", "copy_and_zip_folder"}

\* the masked manager name
Masked == <<"*", "*", "*", "*", "*", "*", "*", "*">>

\* the label the calibration frame gives each position column
FrameLabel(column) ==
    CASE column = "X" -> "X" [] column = "Y" -> "Y" [] column = "Z" -> "Z"
      [] column = "RX" -> "W" [] column = "RY" -> "P" [] column = "RZ" -> "R"

\* the position of the first '-' of a name, one past its end when it has none
FirstDash(s) ==
    IF \E i \in 1..Len(s) : s[i] = "-"
        THEN CHOOSE i \in 1..Len(s) : s[i] = "-" /\ \A j \in 1..(i - 1) : s[j] # "-"
        ELSE Len(s) + 1

\* a step in which the emitter wrote its documents, from the table df it was handed
Emitted(op) == last'.op = op /\ last'.result = "ok"

\* whether folder 'images' holds a well-formed document for process_json to read
HasWellFormedInput ==
    /\ images.folder
    /\ images.json_files # <<>>
    /\ images.json_files[1].kind = "object"
    /\ WellFormed(images.json_files[1].value)

\* whether a name holds none of the characters the cleaning rule acts on
IsClean(s) == \A i \in 1..Len(s) : s[i] \notin {"+", "=", "-"}

---------------------------------------------------------------------------
(* C1.  For every well-formed input (the three top-level fields and a       *)
(* Measurements list of zero or more entries that each carry RobotName),    *)
(* process_json returns a table of 1 + len(Measurements) rows: row 0 is the *)
(* Master, every other row is a Slave, and the Slave rows are in the order  *)
(* of the Measurements entries.  The code contradicts it: on an empty       *)
(* Measurements list process_json raises KeyError.                          *)
C1_TableShape ==
    [][(last'.op = "process_json" /\ HasWellFormedInput) =>
          LET measurements == images.json_files[1].value.Measurements
          IN  /\ last'.result = "ok"
              /\ NRows(df') = 1 + Len(measurements)
              /\ DOMAIN df' = 0..Len(measurements)
              /\ df'[0].Role = "Master"
              /\ \A i \in 1..Len(measurements) :
                    /\ df'[i].Role = "Slave"
                    /\ df'[i].RobotName = clean_robot_name(measurements[i].RobotName)
                    /\ \A f \in PosFields : df'[i][f] = measurements[i][f]]_vars

(* C2.  Name cleaning removes every '+' and '=' and keeps only the text     *)
(* before the first '-'; cleaning a cleaned name returns it unchanged; a    *)
(* name with none of the three characters is returned unchanged; and        *)
(* "A+B=C-D-E" is cleaned to "ABC".                                         *)
C2_CleanRule ==
    \A k \in 1..Len(cleaned) :
        /\ IsClean(cleaned[k])
        /\ k = 1 => cleaned[k] = SelectSeq(SubSeq(raw, 1, FirstDash(raw) - 1),
                                           LAMBDA c : c \notin {"+", "="})
        /\ k > 1 => cleaned[k] = cleaned[k - 1]
        /\ IsClean(raw) => cleaned[k] = raw
        /\ raw = ExampleName => cleaned[k] = <<"A", "B", "C">>

\* C2's case: the documented example, cleaned and cleaned again
C2_Witness ==
    /\ raw = ExampleName
    /\ Len(cleaned) >= 2
    /\ cleaned[2] = <<"A", "B", "C">>

(* C3.  In each of members.xvr, calib.xvr and iic_chk.xvr, for a table of   *)
(* n rows the ARRAY records the emitter writes carry the member ids 1..n    *)
(* once each, in increasing order, and the record with id i is built from   *)
(* table row i-1.                                                           *)
C3_MemberIds ==
    [][/\ Emitted("generate_xvr_files") =>
             /\ LET arrays == Content("members.xvr")'.arrays
                IN  /\ Len(arrays) = NRows(df)
                    /\ \A k \in 1..Len(arrays) :
                          /\ arrays[k].id = k
                          /\ arrays[k].MEMBER_NAME = df[k - 1].RobotName
                          /\ arrays[k].COMMENT = df[k - 1].Role
             /\ LET arrays == Content("calib.xvr")'.arrays
                IN  /\ Len(arrays) = NRows(df)
                    /\ \A k \in 1..Len(arrays) :
                          /\ arrays[k].id = k
                          /\ arrays[k].ROB2_NAME = df[k - 1].RobotName
       /\ Emitted("generate_iic_chk_xml") =>
             LET arrays == Content("iic_chk.xvr")'.arrays
             IN  /\ Len(arrays) = NRows(df)
                 /\ \A k \in 1..Len(arrays) :
                       /\ arrays[k].id = k
                       /\ arrays[k].R_CNTLR = df[k - 1].RobotName]_vars

\* C3's case: the check list of a table of three rows was just written, after
\* the member and calibration documents
C3_Witness ==
    /\ Written("members.xvr") /\ Written("calib.xvr")
    /\ last.op = "generate_iic_chk_xml" /\ last.result = "ok"
    /\ NRows(df) >= 3
    /\ Len(Content("iic_chk.xvr").arrays) = NRows(df)
    /\ Content("iic_chk.xvr").arrays[3].id = 3

(* C4.  The ring document generate_rosipcfg_xml produces for a table has a  *)
(* count equal to the table length and a timeslot of 400, and holds one     *)
(* MEMBER per table row, in table order, whose name is the row's name and   *)
(* whose ipadd is the row's ip; rows with the same cleaned name are each    *)
(* emitted.                                                                 *)
C4_RingDocument ==
    [][Emitted("generate_rosipcfg_xml") =>
          LET ring == Content("ROSIPCFG.xml")'
          IN  /\ ring.count = NRows(df)
              /\ ring.timeslot = 400
              /\ Len(ring.members) = NRows(df)
              /\ \A k \in 1..Len(ring.members) :
                    /\ ring.members[k].name = df[k - 1].RobotName
                    /\ ring.members[k].ipadd =
                          (IF df[k - 1].IP = NaN THEN "nan" ELSE df[k - 1].IP)]_vars

\* C4's case: a ring of three members was just written, two of them with the
\* same cleaned name and different addresses
C4_Witness ==
    /\ last.op = "generate_rosipcfg_xml"
    /\ NRows(df) = 3
    /\ Content("ROSIPCFG.xml").count = 3
    /\ \E j, k \in 1..3 :
          /\ j < k
          /\ Content("ROSIPCFG.xml").members[j].name = Content("ROSIPCFG.xml").members[k].name
          /\ Content("ROSIPCFG.xml").members[j].ipadd # Content("ROSIPCFG.xml").members[k].ipadd

(* C5.  In the calibration document every record's $ROB1_NAME is the name   *)
(* of table row 0, whichever row is emitted, and its $ROB2_NAME is the name *)
(* of the row emitted.                                                      *)
C5_RobotOne ==
    [][Emitted("generate_xvr_files") =>
          \A k \in 1..Len(Content("calib.xvr")'.arrays) :
              /\ Content("calib.xvr")'.arrays[k].ROB1_NAME = df[0].RobotName
              /\ Content("calib.xvr")'.arrays[k].ROB2_NAME = df[k - 1].RobotName]_vars

\* C5's case: a record, just written, of a row whose name is not row 0's
C5_Witness ==
    /\ last.op = "generate_xvr_files" /\ last.result = "ok"
    /\ \E k \in 2..Len(Content("calib.xvr").arrays) :
          /\ df[k - 1].RobotName # df[0].RobotName
          /\ Content("calib.xvr").arrays[k].ROB1_NAME = df[0].RobotName

(* C6.  In the calibration document each of a row's six position values is  *)
(* emitted through format_value: the placeholder "NA" is emitted as         *)
(* "0.000000" and every other value unchanged; so every Master record       *)
(* carries "0.000000" in all six fields.                                    *)
C6_FormatValue ==
    [][Emitted("generate_xvr_files") =>
          \A k \in 1..Len(Content("calib.xvr")'.arrays) :
              \A f \in PosFields :
                  /\ Content("calib.xvr")'.arrays[k][FrameLabel(f)] =
                        (IF df[k - 1][f] = "NA" THEN "0.000000" ELSE df[k - 1][f])
                  /\ df[k - 1].Role = "Master" =>
                        Content("calib.xvr")'.arrays[k][FrameLabel(f)] = "0.000000"]_vars

\* C6's case: a Slave record, just written, with a placeholder in one field and
\* a value in another
C6_Witness ==
    /\ last.op = "generate_xvr_files" /\ last.result = "ok"
    /\ \E k \in 1..Len(Content("calib.xvr").arrays) :
          /\ df[k - 1].Role = "Slave"
          /\ df[k - 1].X = "NA"
          /\ Content("calib.xvr").arrays[k].X = "0.000000"
          /\ Content("calib.xvr").arrays[k].Y = "2.0"

(* C7.  When base/iic_chkbase.xvr does not exist, copy_and_zip_folder       *)
(* prints its diagnostic and returns without raising, copies nothing,       *)
(* creates no archive, and leaves the file system as it was.                *)
C7_MissingBase ==
    [][(last'.op = "copy_and_zip_folder" /\ ~baseExists) =>
          /\ last'.result = "NoBaseFile"
          /\ last'.wrote = {}
          /\ fs' = fs]_vars

\* C7's case: the call returned on a missing base file, in a populated output directory
C7_Witness ==
    /\ ~baseExists
    /\ last.op = "copy_and_zip_folder"
    /\ last.result = "NoBaseFile"
    /\ \A name \in XmlFiles : Written(name)
    /\ ~Written("iic_chkbase.xvr")
    /\ ~ArchiveCreated

(* C8, as claimed.  A run of the pipeline in the documented order ends in   *)
(* one of two ways: the four XML files are written and the archive is       *)
(* created, or the run stopped at its first fatal error; no run completes   *)
(* without a fatal error and without the archive.                           *)
C8_AllOrFatal ==
    pc \in {"done", "stopped"} =>
        \/ (\A name \in XmlFiles : Written(name)) /\ ArchiveCreated
        \/ pc = "stopped" /\ Raised(last)

(* C8, amended.  A run of the pipeline in the documented order ends in one  *)
(* of three ways: it stopped at its first fatal error, no later stage       *)
(* having run; or the four XML files are written and the archive is         *)
(* created; or the four XML files are written and the run completes         *)
(* without a fatal error and without the archive, which happens exactly     *)
(* when the base template is missing or the external zip command fails.     *)
C8_AllOrFatalOrNoArchive ==
    /\ pc = "stopped" =>
          /\ Raised(last)
          /\ zipExit = "not run"
          /\ ~ArchiveCreated
          /\ last.op = "process_json" => fs = EmptyFs
    /\ pc = "done" =>
          /\ ~Raised(last)
          /\ \A name \in XmlFiles : Written(name)
          /\ ArchiveCreated <=> (baseExists /\ zipExit = "ok")
          /\ ArchiveCreated => fs.zips[OutputDir] = DOMAIN fs.files

\* C8's case: a run that completed with its four XML files and no archive
C8_Witness ==
    /\ pc = "done"
    /\ ~baseExists
    /\ \A name \in XmlFiles : Written(name)
    /\ ~ArchiveCreated

(* C9, as claimed.  folder_path is set only by generate_rosipcfg_xml and    *)
(* always to the same value; generate_xvr_files, generate_iic_chk_xml and   *)
(* copy_and_zip_folder write only into the directory an earlier             *)
(* generate_rosipcfg_xml call set; and each of them, called before          *)
(* generate_rosipcfg_xml has ever run, fails (with NameError, or for        *)
(* copy_and_zip_folder without its base file with the diagnostic) and       *)
(* writes no file.                                                          *)
C9_FolderPath ==
    /\ folder_path \in {Undefined, "OLP_NET1"}
    /\ folder_path # Undefined <=> ringRan
    /\ last.op \in LaterStages =>
          /\ last.wrote # {} => ringRan /\ \A p \in last.wrote : p[1] = "OLP_NET1"
          /\ ~ringRan =>
                /\ last.result \in {"NameError", "NoBaseFile"}
                /\ last.result = "NoBaseFile" => (last.op = "copy_and_zip_folder" /\ ~baseExists)
                /\ last.wrote = {}
                /\ fs = EmptyFs

(* C9, amended.  As claimed, except that copy_and_zip_folder also has zip   *)
(* write the archive <folder_path>.zip, which lies beside the directory     *)
(* generate_rosipcfg_xml set and not inside it: every other file the three  *)
(* stages write lies inside that directory, and the archive is named after  *)
(* it and written only by a copy_and_zip_folder call whose zip succeeds.    *)
C9_FolderPathAndArchive ==
    /\ folder_path \in {Undefined, "OLP_NET1"}
    /\ folder_path # Undefined <=> ringRan
    /\ last.op \in LaterStages =>
          /\ last.wrote # {} => ringRan
          /\ \A p \in last.wrote :
                \/ p[1] = "OLP_NET1"
                \/ /\ p = <<".", <<"OLP_NET1", ".zip">>>>
                   /\ last.op = "copy_and_zip_folder"
                   /\ last.result = "ok"
                   /\ zipExit = "ok"
          /\ (last.op = "copy_and_zip_folder" /\ last.result = "ok" /\ zipExit = "ok") =>
                /\ <<".", <<"OLP_NET1", ".zip">>>> \in last.wrote
                /\ <<"OLP_NET1", "iic_chkbase.xvr">> \in last.wrote
                /\ ArchiveCreated
          /\ ~ringRan =>
                /\ last.result \in {"NameError", "NoBaseFile"}
                /\ last.result = "NoBaseFile" => (last.op = "copy_and_zip_folder" /\ ~baseExists)
                /\ last.wrote = {}
                /\ fs = EmptyFs

\* C9's case: copy_and_zip_folder, called after the ring emitter, copied the base
\* file into the directory and had zip write the archive beside it
C9_Witness ==
    /\ last.op = "copy_and_zip_folder"
    /\ ringRan
    /\ folder_path = "OLP_NET1"
    /\ last.wrote = {<<"OLP_NET1", "iic_chkbase.xvr">>, <<".", <<"OLP_NET1", ".zip">>>>}
    /\ ArchiveCreated

(* C10.  For a table built by process_json the role-dependent fields mark   *)
(* the Master in exactly one record, the one with member id 1: $ZMGR_NAME   *)
(* is the row's own name when its role is Master and "********" otherwise,  *)
(* and $CALIB_DONE is "TRUE" when its role is Master and "FALSE" otherwise. *)
C10_RoleFields ==
    [][Emitted("generate_xvr_files") =>
          /\ LET arrays == Content("members.xvr")'.arrays
             IN  \A k \in 1..Len(arrays) :
                     /\ df[k - 1].Role = "Master" <=> arrays[k].id = 1
                     /\ arrays[k].ZMGR_NAME =
                           (IF df[k - 1].Role = "Master" THEN df[k - 1].RobotName ELSE Masked)
                     /\ arrays[k].ZMGR_NAME # Masked <=> arrays[k].id = 1
          /\ LET arrays == Content("calib.xvr")'.arrays
             IN  \A k \in 1..Len(arrays) :
                     /\ arrays[k].CALIB_DONE =
                           (IF df[k - 1].Role = "Master" THEN "TRUE" ELSE "FALSE")
                     /\ arrays[k].CALIB_DONE = "TRUE" <=> arrays[k].id = 1]_vars

\* C10's case: a Slave with the Master's cleaned name is masked and not calibrated
C10_Witness ==
    /\ last.op = "generate_xvr_files" /\ last.result = "ok"
    /\ \E k \in 2..NRows(df) :
          /\ df[k - 1].RobotName = df[0].RobotName
          /\ Content("members.xvr").arrays[k].ZMGR_NAME = Masked
          /\ Content("members.xvr").arrays[1].ZMGR_NAME = df[0].RobotName
          /\ Content("calib.xvr").arrays[k].CALIB_DONE = "FALSE"
          /\ Content("calib.xvr").arrays[1].CALIB_DONE = "TRUE"

=============================================================================
